---- MODULE Spec2Model ----
(***************************************************************************)
(* Model of api/shortlink.py: the Flask catch-all handler of the Studio    *)
(* Comanda shortlink service, its helper create_shortlink, and the remote  *)
(* Supabase table "shortlinks" it reads and writes through query_supabase. *)
(*                                                                         *)
(* Every serverless invocation is a process.  A process is either an HTTP  *)
(* request that Flask routes to handler(), or a direct call of the module  *)
(* level function create_shortlink().  Both URL rules are registered for   *)
(* Flask's default methods, so a POST never reaches handler() and direct   *)
(* calls are the way create_shortlink runs.  A process takes one atomic    *)
(* step per store call, so that invocations interleave exactly at the      *)
(* store.                                                                  *)
(*                                                                         *)
(* Strings whose characters matter (paths, short codes) are sequences of   *)
(* one-character strings.  A URL is the record of the components urlparse  *)
(* splits it into.  A User-Agent is a text tag with its length.            *)
(***************************************************************************)
EXTENDS Integers, Sequences, FiniteSets, TLC

VARIABLES
    store,       \* the rows of the remote table "shortlinks", in insertion order
    procs,       \* per invocation: control point, locals, store traffic, response
    started,     \* <<HTTP requests started, direct create_shortlink calls started>>
    workload,    \* <<HTTP requests, direct calls>> this behaviour may start
    issued,      \* history: the <<code, URL>> pairs create_shortlink has returned
    lookups,     \* history: per code, the resolves whose lookup GET found a row
    disturbed,   \* history: the codes with overlapping resolves or a failed PATCH
    configured   \* SUPABASE_URL and SUPABASE_ANON_KEY are both set

vars == <<store, procs, started, workload, issued, lookups, disturbed, configured>>

-----------------------------------------------------------------------------
(* Bounds of the model *)

NumProcs == 2        \* concurrent invocations
MaxHttp == 3         \* HTTP requests of a read-heavy behaviour
MinCalls == 1        \* direct create_shortlink calls of a read-heavy behaviour
MaxCalls == 2        \* direct create_shortlink calls of a write-heavy behaviour
MinHttp == 1         \* HTTP requests of a write-heavy behaviour
NumGenChars == 2     \* characters the random source draws from
MaxTime == 1         \* clock readings 1..MaxTime

Procs == 1..NumProcs

\* The traffic of a behaviour: many requests on few links, or many creations
Workloads == {<<MaxHttp, MinCalls>>, <<MinHttp, MaxCalls>>}

\* The readings of datetime.utcnow()
Times == 1..MaxTime

-----------------------------------------------------------------------------
(* Program constants *)

\* The default of the environment variable ADMIN_PASSWORD
ADMIN_PASSWORD == "StudioComanda2025!"

SHORTLINK_LENGTH == 7

max_attempts == 5

UA_LIMIT == 500

IP_SALT == "studiocomanda_salt_2025"

Lower == {"a","b","c","d","e","f","g","h","i","j","k","l","m",
          "n","o","p","q","r","s","t","u","v","w","x","y","z"}

Upper == {"A","B","C","D","E","F","G","H","I","J","K","L","M",
          "N","O","P","Q","R","S","T","U","V","W","X","Y","Z"}

Digits == {"0","1","2","3","4","5","6","7","8","9"}

\* string.ascii_letters + string.digits
chars == Lower \cup Upper \cup Digits

-----------------------------------------------------------------------------
(* Pure helpers *)

\* The characters the bounded random source yields, all members of chars.
GenSample == <<"a", "Z", "7", "k">>

GenChars == {GenSample[i] : i \in 1..NumGenChars}

\* generate_short_code(length): the set of strings random.choice may build.
\* The random source is bounded to repeat one drawn character.
generate_short_code(length) ==
    {[i \in 1..length |-> c] : c \in GenChars}

validate_short_code_prefix(code) ==
    IF code = <<>> \/ Len(code) > SHORTLINK_LENGTH
    THEN FALSE
    ELSE \A i \in 1..Len(code) : code[i] \in chars

validate_short_code_length_only(code) ==
    code # <<>> /\ Len(code) = SHORTLINK_LENGTH

validate_short_code(code) ==
    IF code = <<>> \/ Len(code) # SHORTLINK_LENGTH
    THEN FALSE
    ELSE \A i \in 1..Len(code) : code[i] \in chars

Min(a, b) == IF a <= b THEN a ELSE b

\* s[:n] on a string given as [text, len]
Truncate(s, n) == [s EXCEPT !.len = Min(@, n)]

NoIp == ""

\* get_client_ip(): first X-Forwarded-For entry, else X-Real-IP, else REMOTE_ADDR
get_client_ip(h) ==
    LET first == IF h.xff = <<>> THEN NoIp ELSE h.xff[1]
    IN  IF first # NoIp THEN first
        ELSE IF h.xreal # NoIp THEN h.xreal
        ELSE h.remote

\* hash_ip(ip): the first 16 hex digits of sha256(ip || salt), kept symbolic
hash_ip(ip) == <<"sha256_16", ip, IP_SALT>>

\* urlparse(url): the URL is held as its components already
urlparse(url) == [scheme |-> url.scheme, netloc |-> url.netloc]

-----------------------------------------------------------------------------
(* Inputs *)

\* Destination URLs, as urlparse splits them
UrlDoc == [scheme |-> "https", netloc |-> "example.com", path |-> "/doc.pdf"]

UrlOther == [scheme |-> "https", netloc |-> "studiocomanda.it", path |-> "/a"]

\* "not-a-url": no scheme, no host
UrlBad == [scheme |-> "", netloc |-> "", path |-> "not-a-url"]

NoUrl == [scheme |-> "", netloc |-> "", path |-> ""]

NoDesc == "None"

DefaultDesc == "Generato via API"

\* Request paths, the part after the leading slash
PathRoot == <<>>

PathStatus == <<"s","t","a","t","u","s">>

PathCreate == <<"a","p","i","/","c","r","e","a","t","e">>

PathShort == <<"a","b">>

PathPunct == <<"a","b","c","-","1","2","3">>

PathLong == <<"a","b","c","d","1","2","3","4">>

PathAnalytics == <<"a","n","a","l","y","t","i","c","s">>

Paths == {PathRoot, PathStatus, PathCreate, PathShort, PathPunct, PathLong,
          PathAnalytics}
            \cup generate_short_code(SHORTLINK_LENGTH)

NoUA == [text |-> "None", len |-> 0]

\* Request headers and WSGI environment of a visitor
VisitorBrowser == [xff |-> <<"203.0.113.5", "10.0.0.1">>, xreal |-> NoIp,
                   remote |-> "127.0.0.1", ua |-> [text |-> "Mozilla", len |-> 501],
                   host |-> "sc.example"]

VisitorBare == [xff |-> <<>>, xreal |-> NoIp, remote |-> "127.0.0.1", ua |-> NoUA,
                host |-> ""]

\* request.get_json(): no JSON document, a document without the key, or one with it
NoBody == [json |-> FALSE, has_dest |-> FALSE, destination_url |-> NoUrl,
           description |-> NoDesc]

EmptyBody == [NoBody EXCEPT !.json = TRUE]

Bodies == {NoBody, EmptyBody}
            \cup {[json |-> TRUE, has_dest |-> TRUE, destination_url |-> u,
                   description |-> "Invoice"] : u \in {UrlDoc, UrlBad}}

\* request.args.get('auth'): the query parameter, NoAuth when it is absent
NoAuth == "None"

WrongAuth == "guess"

NoReq ==
    [method |-> "none", path |-> <<>>, body |-> NoBody, headers |-> VisitorBare,
     auth |-> NoAuth]

\* The requests the model sends: a GET of every path (the code-shaped ones
\* from a browser), a GET of /analytics with the admin secret and with another
\* value as auth, a POST of every body to the create path, and an OPTIONS
\* request
Requests ==
    {[method |-> "GET", path |-> path, body |-> NoBody,
      headers |-> IF path \in generate_short_code(SHORTLINK_LENGTH)
                  THEN VisitorBrowser ELSE VisitorBare,
      auth |-> NoAuth] : path \in Paths}
    \cup {[method |-> "GET", path |-> PathAnalytics, body |-> NoBody,
           headers |-> VisitorBare, auth |-> auth] :
                auth \in {ADMIN_PASSWORD, WrongAuth}}
    \cup {[method |-> "POST", path |-> PathCreate, body |-> body,
           headers |-> VisitorBrowser, auth |-> NoAuth] : body \in Bodies}
    \cup {[method |-> "OPTIONS", path |-> PathCreate, body |-> NoBody,
           headers |-> VisitorBare, auth |-> NoAuth]}

\* The arguments of the direct calls of create_shortlink, in the order of the calls
CallInputs == <<<<UrlDoc, "Invoice">>, <<UrlOther, NoDesc>>>>

-----------------------------------------------------------------------------
(* The remote table, as the REST interface of the store shows it *)

NoTime == 0

NoHash == <<>>

\* The row an insert of data creates: columns the request leaves out are NULL
NewRow(data) ==
    [short_id |-> data.short_id,
     destination_url |-> data.destination_url,
     access_count |-> data.access_count,
     original_filename |-> data.original_filename,
     content_type |-> data.content_type,
     created_at |-> data.created_at,
     last_accessed |-> NoTime,
     last_user_agent |-> NoUA,
     last_ip_hash |-> NoHash]

\* GET shortlinks?short_id=eq.<code>: the positions of the matching rows
Matching(st, code) == {i \in 1..Len(st) : st[i].short_id = code}

\* POST shortlinks: the store appends the row; nothing in the request asks
\* the store to refuse or merge a row whose short_id is already present
Insert(st, data) == Append(st, NewRow(data))

\* PATCH shortlinks?short_id=eq.<code>: the columns of data, on every matching row
UpdateAllRows(st, code, data) ==
    [i \in 1..Len(st) |->
        [st[i] EXCEPT !.access_count = data.access_count,
                      !.last_accessed = data.last_accessed,
                      !.last_user_agent = data.last_user_agent,
                      !.last_ip_hash = data.last_ip_hash]]

Update(st, code, data) ==
    [i \in 1..Len(st) |->
        IF st[i].short_id = code
        THEN [st[i] EXCEPT !.access_count = data.access_count,
                           !.last_accessed = data.last_accessed,
                           !.last_user_agent = data.last_user_agent,
                           !.last_ip_hash = data.last_ip_hash]
        ELSE st[i]]

-----------------------------------------------------------------------------
(* query_supabase *)

ExcNone == <<>>

ExcConfig == <<"Configurazione Supabase mancante">>

ExcTimeout == <<"Timeout database">>

\* url: the store's base URL, the REST path and the query of the call
StoreRequestUrl == "<SUPABASE_URL>/rest/v1/shortlinks?<query>"

\* The API key, sent in the apikey and Authorization headers of every call
StoreApiKey == "<SUPABASE_ANON_KEY>"

\* str(e) of a requests exception names the URL that was requested: an
\* HTTPError of raise_for_status reads "<status> <reason> for url: <url>", a
\* ConnectionError names the host and "url: <path and query>"
ExcDb == <<"Errore database: ", "<requests error> for url: ", StoreRequestUrl>>

ExcExhausted == <<"Impossibile generare shortlink unico">>

\* What one call can come to.  Without configuration it raises before any
\* network call.  Otherwise the store answers ("ok"; "ok_empty" when the
\* response has no content or an empty list), or the 8 s timeout expires
\* with the request applied or not, or the request fails unapplied.
Outcomes(method) ==
    IF ~configured THEN {"config"}
    ELSE CASE method = "GET" -> {"ok", "timeout_lost", "error"}
           [] method = "POST" -> {"ok", "ok_empty", "timeout_applied",
                                  "timeout_lost", "error"}
           [] method = "PATCH" -> {"ok", "timeout_applied", "timeout_lost", "error"}

Applied(outcome) == outcome \in {"ok", "ok_empty", "timeout_applied"}

Sent(outcome) == outcome # "config"

\* The exception query_supabase raises, ExcNone when it returns
Raised(outcome) ==
    CASE outcome = "config" -> ExcConfig
      [] outcome \in {"timeout_applied", "timeout_lost"} -> ExcTimeout
      [] outcome = "error" -> ExcDb
      [] OTHER -> ExcNone

-----------------------------------------------------------------------------
(* Responses *)

NoData == [short_code |-> <<>>, short_url |-> NoUrl, destination_url |-> NoUrl,
           description |-> NoDesc]

NoResp == [status |-> 0, kind |-> "none", location |-> NoUrl, cors |-> FALSE,
           msg |-> <<>>, data |-> NoData]

\* jsonify({'error': ...}), status
JsonError(status, msg) ==
    [NoResp EXCEPT !.status = status, !.kind = "json_error", !.msg = msg]

\* render_error_page(code, message)
render_error_page(code, message) ==
    [NoResp EXCEPT !.status = code, !.kind = "error_page", !.msg = message]

\* redirect(destination_url, code=302)
redirect(url, code) ==
    [NoResp EXCEPT !.status = code, !.kind = "redirect", !.location = url]

\* jsonify({'status': 'ok', ...})
StatusJson == [NoResp EXCEPT !.status = 200, !.kind = "status_json"]

\* add_cors_headers(jsonify({'success': True, ...}))
CreatedJson(short_code, host, destination_url, description) ==
    [NoResp EXCEPT !.status = 200, !.kind = "created", !.cors = TRUE,
        !.data = [short_code |-> short_code,
                  short_url |-> [scheme |-> "https",
                                 netloc |-> IF host = "" THEN "studiocomanda.it"
                                            ELSE host,
                                 path |-> short_code],
                  destination_url |-> destination_url,
                  description |-> description]]

\* What Flask answers by itself for a method the URL rule does not list
MethodNotAllowed == [NoResp EXCEPT !.status = 405, !.kind = "method_not_allowed"]

\* Flask's automatic OPTIONS response
AutomaticOptions == [NoResp EXCEPT !.status = 200, !.kind = "options"]

-----------------------------------------------------------------------------
(* Invocations *)

NoResult == [status |-> "none", value |-> <<>>, exc |-> ExcNone]

NoAnalytics == [access_count |-> 0, last_accessed |-> NoTime,
                last_user_agent |-> NoUA, last_ip_hash |-> NoHash]

\* entry: "http" for a request Flask routed to handler(), "call" for a direct
\* call of create_shortlink().  pc: "check" before the existence GET of an
\* attempt, "insert" before its POST, "lookup" before the lookup GET,
\* "patching" while the analytics PATCH is in flight, "done" after the
\* response or the return.  gets, posts, patches count the store requests the
\* invocation has sent, added the rows its POSTs have added to the table;
\* insert is the outcome of its latest POST.  seen is
\* history: the pairs create_shortlink had returned when the request arrived.
IdleProc ==
    [pc |-> "idle", entry |-> "none", req |-> NoReq,
     destination_url |-> NoUrl, description |-> NoDesc,
     attempt |-> 0, short_code |-> <<>>,
     lookup |-> "none", current_count |-> 0, analytics_data |-> NoAnalytics,
     patch |-> "none", insert |-> "none", seen |-> {},
     gets |-> 0, posts |-> 0, patches |-> 0, added |-> 0,
     resp |-> NoResp, result |-> NoResult]

\* The methods of the two URL rules: route() is given no methods argument
RouteMethods == {"GET", "HEAD", "OPTIONS"}

\* create_shortlink returns short_code
CreateReturns(pr, short_code) ==
    IF pr.entry = "http"
    THEN [pr EXCEPT !.pc = "done",
            !.result = [status |-> "returned", value |-> short_code, exc |-> ExcNone],
            !.resp = CreatedJson(short_code, pr.req.headers.host,
                                 pr.destination_url, pr.description)]
    ELSE [pr EXCEPT !.pc = "done",
            !.result = [status |-> "returned", value |-> short_code, exc |-> ExcNone]]

\* create_shortlink raises exc; in the handler the inner except answers 500
CreateRaises(pr, exc) ==
    IF pr.entry = "http"
    THEN [pr EXCEPT !.pc = "done",
            !.result = [status |-> "raised", value |-> <<>>, exc |-> exc],
            !.resp = JsonError(500, <<"Errore creazione: ">> \o exc)]
    ELSE [pr EXCEPT !.pc = "done",
            !.result = [status |-> "raised", value |-> <<>>, exc |-> exc]]

\* The end of one pass of the for loop without a return: the next attempt, or
\* the raise after the loop
NextAttemptUnbounded(pr) ==
    [pr EXCEPT !.pc = "check", !.attempt = pr.attempt + 1, !.short_code = <<>>]

NextAttempt(pr) ==
    IF pr.attempt + 1 < max_attempts
    THEN [pr EXCEPT !.pc = "check", !.attempt = pr.attempt + 1, !.short_code = <<>>]
    ELSE CreateRaises([pr EXCEPT !.attempt = pr.attempt + 1, !.short_code = <<>>],
                      ExcExhausted)

\* The create branch of handler(), up to the call of create_shortlink
CreateBranch(pr) ==
    LET data == pr.req.body
        parsed == urlparse(data.destination_url)
    IN  IF ~data.json \/ ~data.has_dest
        THEN [pr EXCEPT !.pc = "done",
                        !.resp = JsonError(400, <<"destination_url richiesto">>)]
        ELSE IF parsed.scheme = "" \/ parsed.netloc = ""
        THEN [pr EXCEPT !.pc = "done",
                        !.resp = JsonError(400, <<"URL destinazione non valido">>)]
        ELSE [pr EXCEPT !.pc = "check",
                        !.destination_url = data.destination_url,
                        !.description = IF data.description = NoDesc
                                        THEN DefaultDesc ELSE data.description]

\* handler(path), up to its first store call
handler(pr) ==
    LET path == pr.req.path
    IN  IF path = PathCreate /\ pr.req.method = "POST"
        THEN CreateBranch(pr)
        ELSE IF path # <<>> /\ Len(path) <= SHORTLINK_LENGTH /\ validate_short_code(path)
        THEN [pr EXCEPT !.pc = "lookup", !.short_code = path]
        ELSE IF path = PathStatus
        THEN [pr EXCEPT !.pc = "done", !.resp = StatusJson]
        ELSE [pr EXCEPT !.pc = "done",
                        !.resp = render_error_page(404, <<"Pagina non trovata">>)]

\* Flask's dispatch of a request on the two URL rules
Dispatch(pr) ==
    IF pr.req.method \notin RouteMethods
    THEN [pr EXCEPT !.pc = "done", !.resp = MethodNotAllowed]
    ELSE IF pr.req.method = "OPTIONS"
    THEN [pr EXCEPT !.pc = "done", !.resp = AutomaticOptions]
    ELSE handler(pr)

\* No response or return value is waiting to be handed over.  Handing it over
\* is local to the invocation, so it is taken before any other step.
Quiet == \A q \in Procs : procs[q].pc # "done"

\* A new invocation takes the lowest free slot: the slots are interchangeable
CanStart(p) ==
    /\ Quiet
    /\ procs[p].pc = "idle"
    /\ \A q \in Procs : q < p => procs[q].pc # "idle"

\* The response is sent, or the call returns: the invocation is over
Finish(p) ==
    /\ procs[p].pc = "done"
    /\ procs' = [procs EXCEPT ![p] = IdleProc]
    /\ UNCHANGED <<store, started, workload, issued, lookups, disturbed, configured>>

\* An HTTP request arrives
HttpRequest(p) ==
    /\ CanStart(p)
    /\ started[1] < workload[1]
    /\ \E req \in Requests :
        procs' = [procs EXCEPT ![p] =
            Dispatch([IdleProc EXCEPT !.entry = "http", !.req = req, !.seen = issued])]
    /\ started' = [started EXCEPT ![1] = @ + 1]
    /\ disturbed' =
          IF /\ procs'[p].pc = "lookup"
             /\ \E q \in Procs \ {p} :
                    /\ procs[q].pc \in {"lookup", "patching"}
                    /\ procs[q].short_code = procs'[p].short_code
          THEN disturbed \cup {procs'[p].short_code}
          ELSE disturbed
    /\ UNCHANGED <<store, workload, issued, lookups, configured>>

\* create_shortlink(destination_url, description) is called directly
CallCreate(p) ==
    /\ CanStart(p)
    /\ started[2] < workload[2]
    /\ LET args == CallInputs[(started[2] % Len(CallInputs)) + 1]
       IN  procs' = [procs EXCEPT ![p] =
               [IdleProc EXCEPT !.entry = "call", !.pc = "check",
                                !.destination_url = args[1],
                                !.description = args[2]]]
    /\ started' = [started EXCEPT ![2] = @ + 1]
    /\ UNCHANGED <<store, workload, issued, lookups, disturbed, configured>>

-----------------------------------------------------------------------------
(* create_shortlink *)

\* The body of the insert
InsertData(pr, now) ==
    [short_id |-> pr.short_code,
     destination_url |-> pr.destination_url,
     access_count |-> 0,
     original_filename |-> IF pr.description = NoDesc THEN DefaultDesc
                           ELSE pr.description,
     content_type |-> "application/pdf",
     created_at |-> now]

\* After the existence GET of a candidate: existing is the set of rows found
AfterCheck(pr, short_code, existing) ==
    IF existing # {}
    THEN NextAttempt(pr)
    ELSE [pr EXCEPT !.pc = "insert", !.short_code = short_code]

\* After the insert POST returned: result is truthy exactly on outcome "ok"
AfterInsert(pr, outcome) ==
    IF outcome = "ok"
    THEN CreateReturns(pr, pr.short_code)
    ELSE NextAttempt(pr)

\* One attempt, first half: generate a candidate and ask the store for it
CreateCheck(p) ==
    /\ Quiet
    /\ procs[p].pc = "check"
    /\ \E short_code \in generate_short_code(SHORTLINK_LENGTH),
          outcome \in Outcomes("GET") :
        LET pr == [procs[p] EXCEPT !.gets = @ + (IF Sent(outcome) THEN 1 ELSE 0)]
        IN  procs' = [procs EXCEPT ![p] =
                IF Raised(outcome) # ExcNone
                THEN CreateRaises(pr, Raised(outcome))
                ELSE AfterCheck(pr, short_code, Matching(store, short_code))]
    /\ UNCHANGED <<store, started, workload, issued, lookups, disturbed, configured>>

\* One attempt, second half: insert the row
CreateInsert(p) ==
    /\ Quiet
    /\ procs[p].pc = "insert"
    /\ \E now \in Times, outcome \in Outcomes("POST") :
        LET pr == [procs[p] EXCEPT !.posts = @ + (IF Sent(outcome) THEN 1 ELSE 0),
                                   !.added = @ + (IF Applied(outcome) THEN 1 ELSE 0),
                                   !.insert = outcome]
        IN  /\ store' = IF Applied(outcome)
                        THEN Insert(store, InsertData(procs[p], now))
                        ELSE store
            /\ procs' = [procs EXCEPT ![p] =
                IF Raised(outcome) # ExcNone
                THEN CreateRaises(pr, Raised(outcome))
                ELSE AfterInsert(pr, outcome)]
            /\ issued' = IF procs'[p].result.status = "returned"
                         THEN issued \cup {<<procs'[p].result.value,
                                             procs[p].destination_url>>}
                         ELSE issued
    /\ UNCHANGED <<started, workload, lookups, disturbed, configured>>

-----------------------------------------------------------------------------
(* The redirect branch of handler() *)

UnknownUA == [text |-> "Unknown", len |-> 7]

\* analytics_data
AnalyticsData(current_count, now, headers) ==
    [access_count |-> current_count + 1,
     last_accessed |-> now,
     last_user_agent |-> Truncate(IF headers.ua = NoUA THEN UnknownUA
                                  ELSE headers.ua, UA_LIMIT),
     last_ip_hash |-> hash_ip(get_client_ip(headers))]

\* No row: the 404 page
LookupEmptyRedirects(pr) ==
    [pr EXCEPT !.pc = "done", !.lookup = "empty",
               !.resp = redirect(NoUrl, 302)]

LookupEmpty(pr) ==
    [pr EXCEPT !.pc = "done", !.lookup = "empty",
               !.resp = render_error_page(404, <<"Link non trovato">>)]

\* shortlinks[0] is row: its fields are read, the PATCH is sent
LookupFound(pr, row, now) ==
    [pr EXCEPT !.pc = "patching", !.lookup = "found",
               !.destination_url = row.destination_url,
               !.current_count = row.access_count,
               !.analytics_data = AnalyticsData(row.access_count, now, pr.req.headers),
               !.patches = @ + 1]

\* The lookup GET raised: the except of the redirect branch
LookupRaises(pr, exc) ==
    [pr EXCEPT !.pc = "done", !.lookup = "failed",
               !.resp = render_error_page(500, <<"Errore server: ">> \o exc)]

\* The PATCH returned or raised exc: the bare except passes, then the redirect
AfterPatchPropagates(pr, outcome) ==
    IF Raised(outcome) # ExcNone
    THEN [pr EXCEPT !.pc = "done", !.patch = outcome,
             !.resp = render_error_page(500, <<"Errore server: ">> \o Raised(outcome))]
    ELSE [pr EXCEPT !.pc = "done", !.patch = outcome,
             !.resp = redirect(pr.destination_url, 302)]

AfterPatchRetries(pr, outcome) ==
    IF Raised(outcome) # ExcNone /\ pr.patches < 2
    THEN [pr EXCEPT !.patch = outcome, !.patches = @ + 1]
    ELSE [pr EXCEPT !.pc = "done", !.patch = outcome,
             !.resp = redirect(pr.destination_url, 302)]

AfterPatch(pr, outcome) ==
    [pr EXCEPT !.pc = "done", !.patch = outcome,
               !.resp = redirect(pr.destination_url, 302)]

\* The lookup GET and what follows it up to the sending of the PATCH.  The
\* request states no order, so any matching row can come first.
ResolveLookup(p) ==
    /\ Quiet
    /\ procs[p].pc = "lookup"
    /\ \E outcome \in Outcomes("GET"), now \in Times :
        LET pr == [procs[p] EXCEPT !.gets = @ + (IF Sent(outcome) THEN 1 ELSE 0)]
            shortlinks == Matching(store, pr.short_code)
        IN  IF Raised(outcome) # ExcNone
            THEN procs' = [procs EXCEPT ![p] = LookupRaises(pr, Raised(outcome))]
            ELSE IF shortlinks = {}
            THEN procs' = [procs EXCEPT ![p] = LookupEmpty(pr)]
            ELSE \E i \in shortlinks :
                    procs' = [procs EXCEPT ![p] = LookupFound(pr, store[i], now)]
    /\ lookups' = IF procs'[p].lookup = "found"
                  THEN [lookups EXCEPT ![procs[p].short_code] = @ + 1]
                  ELSE lookups
    /\ UNCHANGED <<store, started, workload, issued, disturbed, configured>>

\* The analytics PATCH completes, and the handler answers
ResolvePatch(p) ==
    /\ Quiet
    /\ procs[p].pc = "patching"
    /\ \E outcome \in Outcomes("PATCH") :
        /\ store' = IF Applied(outcome)
                    THEN Update(store, procs[p].short_code, procs[p].analytics_data)
                    ELSE store
        /\ procs' = [procs EXCEPT ![p] = AfterPatch(procs[p], outcome)]
        /\ disturbed' = IF outcome = "ok" THEN disturbed
                        ELSE disturbed \cup {procs[p].short_code}
    /\ UNCHANGED <<started, workload, issued, lookups, configured>>

-----------------------------------------------------------------------------
(* Specification *)

Init ==
    /\ store = <<>>
    /\ procs = [p \in Procs |-> IdleProc]
    /\ started = <<0, 0>>
    /\ workload \in Workloads
    /\ issued = {}
    /\ lookups = [code \in generate_short_code(SHORTLINK_LENGTH) |-> 0]
    /\ disturbed = {}
    /\ configured \in BOOLEAN

Next ==
    \E p \in Procs :
        \/ HttpRequest(p)
        \/ CallCreate(p)
        \/ CreateCheck(p)
        \/ CreateInsert(p)
        \/ ResolveLookup(p)
        \/ ResolvePatch(p)
        \/ Finish(p)

Spec == Init /\ [][Next]_vars

\* The steps of invocation p that end a store call, and its hand-over
Step(p) ==
    \/ CreateCheck(p)
    \/ CreateInsert(p)
    \/ ResolveLookup(p)
    \/ ResolvePatch(p)
    \/ Finish(p)

\* Every store call returns or raises: requests gives each call a timeout of
\* 8 seconds, so no invocation waits for the store for ever
FairSpec == Spec /\ \A p \in Procs : WF_vars(Step(p))

-----------------------------------------------------------------------------
(* Vocabulary of the properties *)

\* A string of exactly SHORTLINK_LENGTH alphanumeric characters
ShapeValid(path) ==
    /\ Len(path) = SHORTLINK_LENGTH
    /\ \A i \in 1..Len(path) : path[i] \in chars

\* One path segment: not empty, no slash
IsSegment(path) == path # <<>> /\ \A i \in 1..Len(path) : path[i] # "/"

\* A finished HTTP request, with its response
Answered(pr) == pr.pc = "done" /\ pr.entry = "http"

\* A finished GET of a code-shaped path
Resolved(pr) == Answered(pr) /\ pr.req.method = "GET" /\ ShapeValid(pr.req.path)

\* An invocation running or having run create_shortlink to its end
Creating(pr) == pr.pc \in {"check", "insert"}

Created(pr) == pr.pc = "done" /\ pr.result.status # "none"

InsertFailures == {"timeout_applied", "timeout_lost", "error"}

NoStoreRequest(pr) == pr.gets = 0 /\ pr.posts = 0 /\ pr.patches = 0

-----------------------------------------------------------------------------
(* C1 *)

\* C1: a resolve whose lookup GET returned at least one record answers 302
\* with the destination_url of a stored record of that code, whatever became
\* of the analytics PATCH (success, timeout, store error).
C1_ResolveSurvivesPatchFailure ==
    \A p \in Procs :
        LET pr == procs[p]
        IN  (Resolved(pr) /\ pr.lookup = "found") =>
                /\ pr.resp.status = 302
                /\ pr.resp.kind = "redirect"
                /\ pr.resp.location \in
                      {store[i].destination_url : i \in Matching(store, pr.req.path)}

\* A redirect was answered although the PATCH failed with a store error
C1_Witness ==
    \E p \in Procs :
        /\ Resolved(procs[p])
        /\ procs[p].lookup = "found"
        /\ procs[p].patch = "error"
        /\ procs[p].resp.status = 302
        /\ procs[p].resp.location = UrlDoc

-----------------------------------------------------------------------------
(* C2 *)

\* C2 as claimed: every code create_shortlink has returned passes the
\* validator, and a resolve of that code arriving afterwards, its lookup GET
\* answered, redirects to exactly the URL given to that create.
C2_CreateResolveRoundTrip ==
    /\ \A pair \in issued : ShapeValid(pair[1])
    /\ \A p \in Procs :
        LET pr == procs[p]
        IN  (Resolved(pr) /\ pr.lookup # "failed") =>
                \A pair \in pr.seen :
                    pair[1] = pr.req.path =>
                        /\ pr.resp.status = 302
                        /\ pr.resp.location = pair[2]

-----------------------------------------------------------------------------
(* C3 *)

\* C3 as claimed: no two stored records have the same short_id.
C3_ShortIdUnique ==
    \A i, j \in 1..Len(store) :
        i # j => store[i].short_id # store[j].short_id

-----------------------------------------------------------------------------
(* C4 *)

\* C4 as claimed: no step lowers the access_count of a stored record.
C4_AccessCountMonotone ==
    [][\A i \in 1..Len(store) :
          i <= Len(store') /\ store'[i].access_count >= store[i].access_count]_vars

-----------------------------------------------------------------------------
(* C5 *)

\* C5 as claimed: a failed insert is followed by a fresh attempt while fewer
\* than 5 attempts have been made, so a create whose last insert failed ends
\* only as GenerationExhausted, with all 5 attempts used.
C5_InsertFailureRetried ==
    \A p \in Procs :
        LET pr == procs[p]
        IN  (Created(pr) /\ pr.result.status = "raised"
                /\ pr.insert \in InsertFailures) =>
                /\ pr.result.exc = ExcExhausted
                /\ pr.attempt = max_attempts

\* C5, amended: create makes at most 5 attempts (at most 5 existence GETs, at
\* most one POST per GET); an attempt whose candidate exists or whose insert
\* returns an empty result is followed by a fresh attempt while fewer than 5
\* have been made; a store error on the existence GET or on the insert ends
\* create at once with that error; create raises GenerationExhausted exactly
\* when 5 attempts collided or had an empty insert result, and it returns the
\* code of the first insert that returned a record.
C5_BoundedRetry ==
    \A p \in Procs :
        LET pr == procs[p]
        IN  (Creating(pr) \/ Created(pr)) =>
                /\ pr.attempt <= max_attempts
                /\ pr.gets <= max_attempts
                /\ pr.posts <= pr.gets
                /\ Creating(pr) =>
                      /\ pr.attempt < max_attempts
                      /\ pr.gets = pr.attempt + (IF pr.pc = "insert" THEN 1 ELSE 0)
                /\ (Created(pr) /\ pr.result.status = "returned") =>
                      /\ pr.insert = "ok"
                      /\ pr.attempt < max_attempts
                      /\ pr.gets = pr.attempt + 1
                      /\ pr.result.value = pr.short_code
                      /\ \E i \in Matching(store, pr.result.value) :
                            store[i].destination_url = pr.destination_url
                /\ (Created(pr) /\ pr.result.status = "raised") =>
                      /\ pr.result.exc = ExcExhausted <=> pr.attempt = max_attempts
                      /\ pr.result.exc = ExcExhausted =>
                            /\ pr.gets = max_attempts
                            /\ pr.insert \in {"none", "ok_empty"}
                      /\ pr.result.exc # ExcExhausted =>
                            /\ pr.result.exc \in {ExcConfig, ExcTimeout, ExcDb}
                            /\ pr.gets <= pr.attempt + 1

\* GenerationExhausted after five attempts of which some inserted a row and
\* got an empty result, the others collided
C5_Witness ==
    \E p \in Procs :
        /\ Created(procs[p])
        /\ procs[p].result.exc = ExcExhausted
        /\ procs[p].attempt = max_attempts
        /\ procs[p].posts > 0
        /\ procs[p].posts < procs[p].gets

-----------------------------------------------------------------------------
(* C6 *)

\* The create request has no usable destination_url
BadCreateRequest(pr) ==
    /\ pr.req.method = "POST"
    /\ pr.req.path = PathCreate
    /\ \/ ~pr.req.body.json
       \/ ~pr.req.body.has_dest
       \/ pr.req.body.destination_url.scheme = ""
       \/ pr.req.body.destination_url.netloc = ""

\* C6 as claimed: a create request without a destination_url, or with one that
\* has no scheme or no host, is answered 400 and issues no store request.
C6_InvalidDestinationRejected ==
    \A p \in Procs :
        LET pr == procs[p]
        IN  (Answered(pr) /\ BadCreateRequest(pr)) =>
                /\ pr.resp.status = 400
                /\ NoStoreRequest(pr)

-----------------------------------------------------------------------------
(* C7 *)

\* A GET of one path segment that is neither code-shaped nor the status route
ShapeInvalidRequest(pr) ==
    /\ pr.req.method = "GET"
    /\ IsSegment(pr.req.path)
    /\ ~ShapeValid(pr.req.path)
    /\ pr.req.path # PathStatus

-----------------------------------------------------------------------------
(* C8 *)

\* C8: a resolve of a code-shaped path whose lookup GET was answered while the
\* store holds no record of that code answers the 404 page, issues no redirect,
\* sends no PATCH, and leaves the store as it was.
C8_UnknownCodeIs404 ==
    /\ [](\A p \in Procs :
            LET pr == procs[p]
            IN  (Resolved(pr) /\ pr.lookup # "failed"
                    /\ Matching(store, pr.req.path) = {}) =>
                    /\ pr.resp.status = 404
                    /\ pr.resp.kind = "error_page"
                    /\ pr.resp.location = NoUrl
                    /\ pr.patches = 0
                    /\ pr.posts = 0)
    /\ [][\A p \in Procs :
            (procs[p].pc = "lookup" /\ procs'[p].pc = "done"
                /\ Matching(store, procs[p].short_code) = {}) =>
                store' = store]_vars

\* An unknown code was answered 404 while the store holds other records
C8_Witness ==
    \E p \in Procs :
        /\ Resolved(procs[p])
        /\ procs[p].lookup = "empty"
        /\ procs[p].resp.status = 404
        /\ procs[p].patches = 0
        /\ store # <<>>

-----------------------------------------------------------------------------
(* C9 *)

\* C9 as claimed: the redirect is produced without waiting for the analytics
\* PATCH, so while the PATCH is in flight the response already stands.
C9_RedirectBeforePatchCompletes ==
    \A p \in Procs :
        procs[p].pc = "patching" => procs[p].resp.status = 302

-----------------------------------------------------------------------------
(* C10 *)

\* The columns the analytics update never writes
SameIdentity(r1, r2) ==
    /\ r1.short_id = r2.short_id
    /\ r1.destination_url = r2.destination_url
    /\ r1.created_at = r2.created_at
    /\ r1.original_filename = r2.original_filename
    /\ r1.content_type = r2.content_type

\* C10: no step deletes a record or changes its short_id, destination_url or
\* created_at; an insert adds one record and changes none; any other change
\* touches only access_count and the last_* columns, and only in records whose
\* short_id is the code of a resolve whose PATCH completes in that step.
C10_RecordFrame ==
    [][/\ Len(store') >= Len(store)
       /\ \A i \in 1..Len(store) :
            /\ i <= Len(store')
            /\ SameIdentity(store'[i], store[i])
            /\ store'[i] # store[i] =>
                  /\ Len(store') = Len(store)
                  /\ \E p \in Procs :
                        /\ procs[p].pc = "patching"
                        /\ procs'[p].pc = "done"
                        /\ procs[p].short_code = store[i].short_id
       /\ Len(store') > Len(store) =>
            /\ Len(store') = Len(store) + 1
            /\ \E p \in Procs : procs[p].pc = "insert"]_vars

\* Two records of different codes: one was updated by a resolve, the other
\* is as it was inserted
C10_Witness ==
    \E i, j \in 1..Len(store) :
        /\ store[i].short_id # store[j].short_id
        /\ store[i].access_count > 0
        /\ store[i].last_accessed # NoTime
        /\ store[j].access_count = 0
        /\ store[j].last_accessed = NoTime
        /\ store[j].last_ip_hash = NoHash

-----------------------------------------------------------------------------
(* C11 *)

\* C11: a GET of / (the empty path) and a GET of /status are both answered
\* 200 with the status JSON, without authentication and without any store
\* request.
C11_HealthEndpoint ==
    \A p \in Procs :
        LET pr == procs[p]
        IN  (Answered(pr) /\ pr.req.method = "GET"
                /\ pr.req.path \in {PathRoot, PathStatus}) =>
                /\ pr.resp = StatusJson
                /\ NoStoreRequest(pr)

-----------------------------------------------------------------------------
(* C12 *)

\* C12: a POST to /api/create with a valid URL is accepted by the route
\* registration and dispatched to the create branch, so create_shortlink runs
\* for it; when create_shortlink returns, the answer is 200 with success, a
\* short_code of SHORTLINK_LENGTH characters, short_url https://<host>/<short_code>
\* and the destination_url and description of the request.
C12_CreateReachableByPost ==
    \A p \in Procs :
        LET pr == procs[p]
            data == pr.req.body
        IN  (/\ Answered(pr)
             /\ pr.req.method = "POST"
             /\ pr.req.path = PathCreate
             /\ data.json /\ data.has_dest
             /\ urlparse(data.destination_url).scheme # ""
             /\ urlparse(data.destination_url).netloc # "") =>
                /\ pr.resp.kind # "method_not_allowed"
                /\ pr.result.status # "none"
                /\ pr.result.status = "returned" =>
                      /\ Len(pr.result.value) = SHORTLINK_LENGTH
                      /\ pr.resp = CreatedJson(pr.result.value, pr.req.headers.host,
                                               data.destination_url, data.description)

-----------------------------------------------------------------------------
(* C13 *)

\* C13: a GET of /analytics whose auth parameter is not equal to the admin
\* secret is answered 401 and carries no record data; only a request whose
\* auth is exactly the secret is answered with the summary.
C13_AnalyticsAuthGate ==
    \A p \in Procs :
        LET pr == procs[p]
        IN  (Answered(pr) /\ pr.req.method = "GET" /\ pr.req.path = PathAnalytics) =>
                /\ pr.req.auth # ADMIN_PASSWORD =>
                      /\ pr.resp.status = 401
                      /\ pr.resp.data = NoData
                /\ pr.req.auth = ADMIN_PASSWORD => pr.resp.status # 401

-----------------------------------------------------------------------------
(* C14 *)

\* C14: every response to a POST of /api/create, the 200 success as well as
\* each 400 and the 500, carries the three Access-Control-* headers.
C14_CorsOnEveryCreateResponse ==
    \A p \in Procs :
        LET pr == procs[p]
        IN  (Answered(pr) /\ pr.req.method = "POST" /\ pr.req.path = PathCreate) =>
                pr.resp.cors

-----------------------------------------------------------------------------
(* C15 *)

\* C15: when a store call fails (timeout, transport error, HTTP error,
\* missing configuration), the body of the error response contains a generic
\* message only: never the store's base URL or request URL, never the API key.
C15_NoStoreInternalsInErrors ==
    \A p \in Procs :
        Answered(procs[p]) =>
            \A i \in 1..Len(procs[p].resp.msg) :
                procs[p].resp.msg[i] \notin {StoreRequestUrl, StoreApiKey}

-----------------------------------------------------------------------------
(* C16 *)

\* The store requests of one invocation stay within the code's limits
BoundedTraffic(pr) ==
    /\ pr.entry = "http" /\ pr.req.method = "GET" =>
          pr.gets <= 1 /\ pr.patches <= 1 /\ pr.posts = 0
    /\ pr.entry = "call" =>
          pr.gets <= max_attempts /\ pr.posts <= max_attempts /\ pr.patches = 0

\* C16: no store call is retried except by the loop of create_shortlink: one
\* resolve sends at most one lookup GET and at most one PATCH, one create at
\* most max_attempts GETs and max_attempts POSTs; and, every store call
\* returning or timing out, every request eventually has its response.
C16_BoundedTrafficAndTermination ==
    /\ [](\A p \in Procs : BoundedTraffic(procs[p]))
    /\ \A p \in Procs :
          (procs[p].pc \notin {"idle", "done"}) ~> (procs[p].pc = "done")

\* A create that used up its attempts with max_attempts existence GETs
C16_Witness ==
    \E p \in Procs :
        /\ Created(procs[p])
        /\ procs[p].result.exc = ExcExhausted
        /\ procs[p].gets = max_attempts
        /\ procs[p].posts >= 1

-----------------------------------------------------------------------------
(* C17 *)

\* The invocation took the redirect branch: it is about to send the lookup
\* GET, or has sent it
TookLookupBranch(pr) == pr.pc \in {"lookup", "patching"} \/ pr.lookup # "none"

\* C17: validate_short_code is true exactly for the strings of
\* SHORTLINK_LENGTH alphanumeric characters; a GET takes the redirect branch
\* exactly when its path is such a string; and whatever is used as a store
\* lookup key is the path itself and code-shaped, so never api/create, status
\* or the empty path.
C17_ValidatorGuardsLookup ==
    /\ \A path \in Paths : validate_short_code(path) <=> ShapeValid(path)
    /\ \A p \in Procs :
        LET pr == procs[p]
        IN  /\ (pr.entry = "http" /\ pr.req.method = "GET") =>
                  (TookLookupBranch(pr) <=> ShapeValid(pr.req.path))
            /\ (pr.entry = "http" /\ (TookLookupBranch(pr) \/ ~NoStoreRequest(pr))) =>
                  /\ pr.short_code = pr.req.path
                  /\ ShapeValid(pr.short_code)
                  /\ pr.short_code \notin {PathCreate, PathStatus, PathRoot}

\* A path of the right length with a hyphen was answered without a store
\* request while the lookup of a code-shaped path is under way
C17_Witness ==
    \E p, q \in Procs :
        /\ Answered(procs[p])
        /\ procs[p].req.path = PathPunct
        /\ NoStoreRequest(procs[p])
        /\ procs[q].pc = "patching"
        /\ procs[q].gets = 1
        /\ procs[q].short_code = procs[q].req.path
        /\ ShapeValid(procs[q].req.path)

-----------------------------------------------------------------------------
(* C18 *)

\* A resolve of code is between its lookup and the completion of its PATCH
PatchInFlight(code) ==
    \E p \in Procs : procs[p].pc = "patching" /\ procs[p].short_code = code

\* The count of record i never exceeds the resolves of its code whose lookup
\* has succeeded
NoOverCount(i) == store[i].access_count <= lookups[store[i].short_id]

\* C18: for every stored record, access_count is at most the number of
\* resolves of its code whose lookup has succeeded so far; and where the
\* resolves of the code have not overlapped and every PATCH has succeeded,
\* access_count is exactly that number once no PATCH is outstanding.
C18_NoOverCounting ==
    \A i \in 1..Len(store) :
        /\ NoOverCount(i)
        /\ (store[i].short_id \notin disturbed /\ ~PatchInFlight(store[i].short_id)) =>
              store[i].access_count = lookups[store[i].short_id]

\* The same, for the codes that have a single record
C18_ExactWhenUnique ==
    \A i \in 1..Len(store) :
        /\ NoOverCount(i)
        /\ (/\ store[i].short_id \notin disturbed
            /\ ~PatchInFlight(store[i].short_id)
            /\ Cardinality(Matching(store, store[i].short_id)) = 1) =>
              store[i].access_count = lookups[store[i].short_id]

-----------------------------------------------------------------------------
(* C19 *)

\* C19: one call of create_shortlink adds at most one record to the table,
\* and a call that ends in failure adds none, also when an insert is applied
\* and its response comes back empty or is lost to a timeout.
C19_OneCreateOneRecord ==
    \A p \in Procs :
        LET pr == procs[p]
        IN  /\ pr.added <= 1
            /\ (Created(pr) /\ pr.result.status = "raised") => pr.added = 0

====
